---- MODULE Spec2Model ----
(***************************************************************************)
(* Model of red_team/kali_mcp/src/config.ts: terraform root discovery,     *)
(* lab configuration validation, CIDR membership and SSH credential        *)
(* selection.                                                              *)
(*                                                                         *)
(* Strings that the code parses are sequences of one-character strings.    *)
(* A JavaScript Number is a record [nan, hi, lo] standing for NaN or for   *)
(* the integer hi * 2^16 + lo with lo in 0 .. 2^16 - 1, so that unsigned   *)
(* 32-bit values are computed with small integers only.                    *)
(***************************************************************************)
EXTENDS Integers, Sequences, FiniteSets, TLC

VARIABLES
    \* isTargetAllowed: position of the call, its arguments and its result
    netPc, netTarget, netCidrs, netResult,
    \* LabConfigSchema.parse: position, the raw payload, the LabConfig produced
    cfgPc, configJson, config,
    \* selectCredentials: position, arguments, returned value, thrown message
    credPc, credTarget, credArgs, credResult, credError,
    \* findTerraformRoot: the filesystem, process.cwd(), position, the loop's
    \* locals, returned path, thrown error
    fsFiles, fsDirs, cwd, findPc, currentDir, depth, findResult, findError

netVars == <<netPc, netTarget, netCidrs, netResult>>

cfgVars == <<cfgPc, configJson, config>>

credVars == <<credPc, credTarget, credArgs, credResult, credError>>

findVars == <<fsFiles, fsDirs, cwd, findPc, currentDir, depth, findResult, findError>>

vars == <<netVars, cfgVars, credVars, findVars>>

----------------------------------------------------------------------------
(* Bounds of the model *)

\* longest allowedCidrs list passed to isTargetAllowed
MaxCidrs == 2

\* most marker files (main.tf, outputs.tf) present on the filesystem
MaxMarkers == 2

\* depth of the deepest working directory
DeepLen == 12

----------------------------------------------------------------------------
(* JavaScript numbers and the 32-bit operators the code uses *)

Half == 2 ^ 16

NaN == [nan |-> TRUE, hi |-> 0, lo |-> 0]

\* the Number with integer value v
Num(v) == [nan |-> FALSE, hi |-> v \div Half, lo |-> v % Half]

Norm(hi, lo) == [nan |-> FALSE, hi |-> hi + (lo \div Half), lo |-> lo % Half]

\* a + b
Add(x1, x2) == IF x1.nan \/ x2.nan THEN NaN ELSE Norm(x1.hi + x2.hi, x1.lo + x2.lo)

\* a - b
Sub(y1, y2) == IF y1.nan \/ y2.nan THEN NaN ELSE Norm(y1.hi - y2.hi, y1.lo - y2.lo)

\* ToUint32: NaN becomes 0, anything else is reduced modulo 2^32
ToUint32(w) == IF w.nan THEN Num(0) ELSE [nan |-> FALSE, hi |-> w.hi % Half, lo |-> w.lo]

\* ToInt32: the same bits read as a signed value
ToInt32(sw) ==
    LET uw == ToUint32(sw)
    IN  IF uw.hi >= Half \div 2 THEN [uw EXCEPT !.hi = uw.hi - Half] ELSE uw

\* an unsigned 32-bit value shifted left by c bits (0 <= c <= 31), modulo 2^32
ShlU(u, c) ==
    IF c < 16
    THEN [nan |-> FALSE,
          hi  |-> (u.hi * (2 ^ c) + (u.lo \div (2 ^ (16 - c)))) % Half,
          lo  |-> (u.lo * (2 ^ c)) % Half]
    ELSE [nan |-> FALSE, hi |-> (u.lo * (2 ^ (c - 16))) % Half, lo |-> 0]

\* the shift count of << : ToUint32(n) & 31
ShiftCount(n) == ToUint32(n).lo % 32

\* a << n
ShiftLeft(lnum, rnum) == ToInt32(ShlU(ToUint32(lnum), ShiftCount(rnum)))

\* a >>> 0
UnsignedShiftRight0(rs) == ToUint32(rs)

\* bitwise and of two k-bit naturals
RECURSIVE AndBits(_, _, _)
AndBits(x, y, k) ==
    IF k = 0 THEN 0
    ELSE (x % 2) * (y % 2) + 2 * AndBits(x \div 2, y \div 2, k - 1)

\* a & b
BitAnd(b1, b2) ==
    LET ua == ToUint32(b1)
        ub == ToUint32(b2)
    IN  ToInt32([nan |-> FALSE,
                 hi  |-> AndBits(ua.hi, ub.hi, 16),
                 lo  |-> AndBits(ua.lo, ub.lo, 16)])

\* a === b on Numbers
StrictEq(e1, e2) == ~e1.nan /\ ~e2.nan /\ e1 = e2

\* 0xffffffff
AllOnes == [nan |-> FALSE, hi |-> Half - 1, lo |-> Half - 1]

----------------------------------------------------------------------------
(* Strings: split and parseInt *)

DigitChars == <<"0", "1", "2", "3", "4", "5", "6", "7", "8", "9">>

IsDigit(c) == \E i \in 1..10 : DigitChars[i] = c

DigitVal(c) == (CHOOSE i \in 1..10 : DigitChars[i] = c) - 1

\* String(undefined), what parseInt sees for a missing array element
StrUndefined == <<"u", "n", "d", "e", "f", "i", "n", "e", "d">>

\* s.split(sep) for a one-character separator
RECURSIVE Split(_, _)
Split(s, sep) ==
    IF \A i \in 1..Len(s) : s[i] # sep THEN <<s>>
    ELSE LET i == CHOOSE j \in 1..Len(s) :
                      s[j] = sep /\ \A k \in 1..(j - 1) : s[k] # sep
         IN  <<SubSeq(s, 1, i - 1)>> \o Split(SubSeq(s, i + 1, Len(s)), sep)

\* the value of the longest run of digits at the front of s, given the
\* value acc of the digits already read
RECURSIVE DigitsValue(_, _)
DigitsValue(s, acc) ==
    IF s = <<>> \/ ~IsDigit(Head(s)) THEN acc
    ELSE DigitsValue(Tail(s), acc * 10 + DigitVal(Head(s)))

RECURSIVE TrimLeft(_)
TrimLeft(s) == IF s # <<>> /\ Head(s) = " " THEN TrimLeft(Tail(s)) ELSE s

\* parseInt(s, 10): leading blanks, an optional sign, then the longest run
\* of digits; NaN when there is no digit
ParseInt(s) ==
    LET trimmed == TrimLeft(s)
        neg     == trimmed # <<>> /\ Head(trimmed) = "-"
        body    == IF trimmed # <<>> /\ Head(trimmed) \in {"-", "+"}
                   THEN Tail(trimmed) ELSE trimmed
    IN  IF body = <<>> \/ ~IsDigit(Head(body)) THEN NaN
        ELSE IF neg THEN Num(0 - DigitsValue(body, 0))
        ELSE Num(DigitsValue(body, 0))

----------------------------------------------------------------------------
(* Network policy: isTargetAllowed / isIpInCidr / ipToNumber *)

\* the reduce callback: (acc << 8) + parseInt(octet, 10)
PackOctet(acc, octet) == Add(ShiftLeft(acc, Num(8)), ParseInt(octet))

RECURSIVE Reduce(_, _)
Reduce(parts, acc) ==
    IF parts = <<>> THEN acc
    ELSE Reduce(Tail(parts), PackOctet(acc, Head(parts)))

ipToNumber(ip) == UnsignedShiftRight0(Reduce(Split(ip, "."), Num(0)))

\* the low bits instead of the high ones: ((1 << prefix) - 1) >>> 0
PrefixMaskLowBits(prefix) == UnsignedShiftRight0(Sub(ShiftLeft(Num(1), prefix), Num(1)))

\* mask = (0xffffffff << (32 - prefix)) >>> 0
PrefixMask(prefix) == UnsignedShiftRight0(ShiftLeft(AllOnes, Sub(Num(32), prefix)))

isIpInCidr(ip, cidr) ==
    LET cidrParts    == Split(cidr, "/")
        network      == cidrParts[1]
        prefixLength == IF Len(cidrParts) >= 2 THEN cidrParts[2] ELSE StrUndefined
        prefixNum    == ParseInt(prefixLength)
        ipNum        == ipToNumber(ip)
        networkNum   == ipToNumber(network)
        mask         == PrefixMask(prefixNum)
    IN  StrictEq(BitAnd(ipNum, mask), BitAnd(networkNum, mask))

\* the for loop: true at the first range that matches, false after the last
RECURSIVE AnyCidrFrom(_, _, _)
AnyCidrFrom(target, allowedCidrs, i) ==
    IF i > Len(allowedCidrs) THEN FALSE
    ELSE IF isIpInCidr(target, allowedCidrs[i]) THEN TRUE
    ELSE AnyCidrFrom(target, allowedCidrs, i + 1)

isTargetAllowed(target, allowedCidrs) == AnyCidrFrom(target, allowedCidrs, 1)

----------------------------------------------------------------------------
(* Inputs of the network policy *)

\* n in decimal
RECURSIVE Dec(_)
Dec(n) == IF n < 10 THEN <<DigitChars[n + 1]>>
          ELSE Dec(n \div 10) \o <<DigitChars[(n % 10) + 1]>>

\* the dotted quad of four octets
FormatIp(o) == Dec(o[1]) \o <<".">> \o Dec(o[2]) \o <<".">> \o Dec(o[3]) \o <<".">> \o Dec(o[4])

FormatCidr(o, p) == FormatIp(o) \o <<"/">> \o Dec(p)

SampleIps ==
    { <<10, 0, 1, 5>>, <<10, 0, 2, 5>>, <<0, 0, 0, 0>>,
      <<192, 168, 1, 1>>, <<255, 255, 255, 255>> }

SampleNets ==
    { <<10, 0, 1, 0>>, <<0, 0, 0, 0>>, <<192, 168, 0, 0>> }

SamplePrefixes == {0, 1, 16, 24, 32}

ValidTargets == {FormatIp(o) : o \in SampleIps}

MalformedTargets ==
    { <<"f", "o", "o">>,
      <<"1", "0", ".", "0", ".", "x", ".", "5">> }

\* a range without "/prefix", one with a non-numeric prefix, one with
\* non-numeric octets
MalformedCidrs ==
    { FormatIp(<<10, 0, 1, 5>>),
      FormatIp(<<10, 0, 1, 0>>) \o <<"/", "x">>,
      <<"a", ".", "b", ".", "c", ".", "d", "/", "2", "4">> }

TargetInputs == ValidTargets \cup MalformedTargets

CidrInputs == {FormatCidr(n, p) : n \in SampleNets, p \in SamplePrefixes} \cup MalformedCidrs

CidrLists == UNION {[1..k -> CidrInputs] : k \in 0..MaxCidrs}

----------------------------------------------------------------------------
(* Configuration model: InstanceSchema, DisabledInstanceSchema and the     *)
(* instance slots of LabConfigSchema.  A JSON object is a function from    *)
(* its keys to its values; zod's z.object strips the keys it does not      *)
(* declare, and z.union returns the result of the first option that        *)
(* accepts the input.                                                      *)

SlotNames == {"siem", "victim", "kali"}

TopKeys == {"version", "generated", "lab", "instances", "network", "mcp"}

\* the keys InstanceSchema requires
InstanceRequired == {"public_ip", "private_ip", "ssh_key", "ssh_user", "instance_type"}

\* the strings z.string().ip() accepts, among those the payloads use
IpStrings == {"1.1.1.1", "2.2.2.2", "10.0.1.10", "9.9.9.9"}

IsIp(str) == str \in IpStrings

\* InstanceSchema accepts raw
InstanceAccepts(raw) ==
    /\ InstanceRequired \subseteq DOMAIN raw
    /\ IsIp(raw["public_ip"])
    /\ IsIp(raw["private_ip"])
    /\ "enabled" \in DOMAIN raw => raw["enabled"] \in BOOLEAN

\* the enabled flag InstanceSchema produces: optional().default(true)
InstanceEnabledDefaultFalse(raw) ==
    IF "enabled" \in DOMAIN raw THEN raw["enabled"] ELSE FALSE

InstanceEnabled(raw) ==
    IF "enabled" \in DOMAIN raw THEN raw["enabled"] ELSE TRUE

\* the value InstanceSchema produces for an accepted raw
InstanceOutput(raw) ==
    [key \in InstanceRequired \cup {"enabled"} |->
        IF key = "enabled" THEN InstanceEnabled(raw) ELSE raw[key]]

\* DisabledInstanceSchema accepts raw: enabled is the literal false
DisabledAccepts(raw) == "enabled" \in DOMAIN raw /\ raw["enabled"] = FALSE

\* the value DisabledInstanceSchema produces: the declared key only
DisabledOutput(raw) == [key \in {"enabled"} |-> raw[key]]

\* z.union([InstanceSchema, DisabledInstanceSchema]) accepts raw
UnionAccepts(raw) == InstanceAccepts(raw) \/ DisabledAccepts(raw)

\* ... and what it produces: the first option's result
UnionOutput(raw) ==
    IF InstanceAccepts(raw) THEN InstanceOutput(raw) ELSE DisabledOutput(raw)

\* LabConfigSchema accepts the payload: every top-level key is there and
\* each of the three slots is there and accepted by the union
LabConfigAccepts(payload) ==
    /\ TopKeys \subseteq DOMAIN payload
    /\ SlotNames \subseteq DOMAIN payload["instances"]
    /\ \A slot \in SlotNames : UnionAccepts(payload["instances"][slot])

LabConfigOutput(payload) ==
    [key \in TopKeys |->
        IF key = "instances"
        THEN [slot \in SlotNames |-> UnionOutput(payload["instances"][slot])]
        ELSE payload[key]]

----------------------------------------------------------------------------
(* Credential selector: selectCredentials *)

\* 'ssh_key' in config.instances.<slot>
HasSshKey(inst) == "ssh_key" \in DOMAIN inst

\* <slot>.public_ip === target || <slot>.private_ip === target
AddressMatches(inst, target) ==
    inst["public_ip"] = target \/ inst["private_ip"] = target

OwnCredentials(inst) == [sshKey |-> inst["ssh_key"], username |-> inst["ssh_user"]]

\* defaultUsername: string = 'kali'; args holds the optional third argument
DefaultUsername(args) == IF args = <<>> THEN "kali" ELSE args[1]

KaliUnavailable == "Kali instance not available for SSH operations"

\* the outcome of selectCredentials(target, cfg, ...args):
\* [threw, value, message]
NoCredentials == [sshKey |-> "", username |-> ""]

Returns(value) == [threw |-> FALSE, value |-> value, message |-> ""]

Throws(message) == [threw |-> TRUE, value |-> NoCredentials, message |-> message]

selectCredentialsVictimFirst(target, cfg, args) ==
    LET siem   == cfg["instances"]["siem"]
        victim == cfg["instances"]["victim"]
        kali   == cfg["instances"]["kali"]
    IN  IF HasSshKey(victim) /\ AddressMatches(victim, target)
        THEN Returns(OwnCredentials(victim))
        ELSE IF HasSshKey(siem) /\ AddressMatches(siem, target)
        THEN Returns(OwnCredentials(siem))
        ELSE IF HasSshKey(kali) /\ AddressMatches(kali, target)
        THEN Returns(OwnCredentials(kali))
        ELSE IF ~HasSshKey(kali)
        THEN Throws(KaliUnavailable)
        ELSE Returns([sshKey |-> kali["ssh_key"], username |-> DefaultUsername(args)])

selectCredentialsKaliUser(target, cfg, args) ==
    LET siem   == cfg["instances"]["siem"]
        victim == cfg["instances"]["victim"]
        kali   == cfg["instances"]["kali"]
    IN  IF HasSshKey(siem) /\ AddressMatches(siem, target)
        THEN Returns(OwnCredentials(siem))
        ELSE IF HasSshKey(victim) /\ AddressMatches(victim, target)
        THEN Returns(OwnCredentials(victim))
        ELSE IF HasSshKey(kali) /\ AddressMatches(kali, target)
        THEN Returns(OwnCredentials(kali))
        ELSE IF ~HasSshKey(kali)
        THEN Throws(KaliUnavailable)
        ELSE Returns(OwnCredentials(kali))

selectCredentialsKaliRequired(target, cfg, args) ==
    LET siem   == cfg["instances"]["siem"]
        victim == cfg["instances"]["victim"]
        kali   == cfg["instances"]["kali"]
    IN  IF ~HasSshKey(kali)
        THEN Throws(KaliUnavailable)
        ELSE IF HasSshKey(siem) /\ AddressMatches(siem, target)
        THEN Returns(OwnCredentials(siem))
        ELSE IF HasSshKey(victim) /\ AddressMatches(victim, target)
        THEN Returns(OwnCredentials(victim))
        ELSE IF HasSshKey(kali) /\ AddressMatches(kali, target)
        THEN Returns(OwnCredentials(kali))
        ELSE Returns([sshKey |-> kali["ssh_key"], username |-> DefaultUsername(args)])

selectCredentials(target, cfg, args) ==
    LET siem   == cfg["instances"]["siem"]
        victim == cfg["instances"]["victim"]
        kali   == cfg["instances"]["kali"]
    IN  IF HasSshKey(siem) /\ AddressMatches(siem, target)
        THEN Returns(OwnCredentials(siem))
        ELSE IF HasSshKey(victim) /\ AddressMatches(victim, target)
        THEN Returns(OwnCredentials(victim))
        ELSE IF HasSshKey(kali) /\ AddressMatches(kali, target)
        THEN Returns(OwnCredentials(kali))
        ELSE IF ~HasSshKey(kali)
        THEN Throws(KaliUnavailable)
        ELSE Returns([sshKey |-> kali["ssh_key"], username |-> DefaultUsername(args)])

----------------------------------------------------------------------------
(* Inputs of validation and of the credential selector *)

SlotKey(slot) ==
    CASE slot = "siem" -> "siem.pem" [] slot = "victim" -> "victim.pem" [] OTHER -> "kali.pem"

SlotUser(slot) ==
    CASE slot = "siem" -> "siem-admin" [] slot = "victim" -> "victim-user" [] OTHER -> "kali-admin"

PublicIps == {"1.1.1.1", "2.2.2.2"}

PrivateIp == "10.0.1.10"

\* a fully specified instance without an enabled key
FullInstance(slot, pub) ==
    [public_ip |-> pub, private_ip |-> PrivateIp, ssh_key |-> SlotKey(slot),
     ssh_user |-> SlotUser(slot), instance_type |-> "t3.micro"]

\* obj with key set to val
WithKey(obj, key, val) ==
    [k \in DOMAIN obj \cup {key} |-> IF k = key THEN val ELSE obj[k]]

WithoutKey(obj, key) == [k \in DOMAIN obj \ {key} |-> obj[k]]

OnlyDisabled == [enabled |-> FALSE]

RawSlots(slot) ==
    {FullInstance(slot, pub) : pub \in PublicIps}
    \cup {WithKey(FullInstance(slot, pub), "enabled", en) : pub \in PublicIps, en \in BOOLEAN}
    \cup { OnlyDisabled,
           [enabled |-> FALSE, ssh_key |-> SlotKey(slot)],
           [enabled |-> TRUE],
           FullInstance(slot, "not-an-ip"),
           WithKey(FullInstance(slot, "not-an-ip"), "enabled", FALSE),
           WithoutKey(FullInstance(slot, "1.1.1.1"), "ssh_user") }

Payload(instances) ==
    [version |-> "1.0", generated |-> "2025-01-01", lab |-> "lab",
     instances |-> instances, network |-> "network", mcp |-> "mcp"]

AllSlotPayloads ==
    { Payload([siem |-> s, victim |-> v, kali |-> k]) :
        s \in RawSlots("siem"), v \in RawSlots("victim"), k \in RawSlots("kali") }

BaseInstances ==
    [slot \in SlotNames |-> FullInstance(slot, "1.1.1.1")]

\* payloads with a slot absent, and payloads with a top-level block absent
IncompletePayloads ==
    {Payload(WithoutKey(BaseInstances, slot)) : slot \in SlotNames}
    \cup {WithoutKey(Payload(BaseInstances), key) : key \in {"mcp", "instances"}}

Payloads == AllSlotPayloads \cup IncompletePayloads

CredTargets == {"1.1.1.1", "2.2.2.2", "10.0.1.10", "9.9.9.9"}

\* the optional third argument: omitted, or "operator"
CredArgs == {<<>>, <<"operator">>}

----------------------------------------------------------------------------
(* Path resolver: findTerraformRoot.  A path is the sequence of its        *)
(* segments, the filesystem root is the empty sequence.                    *)

maxDepth == 10

Aptl == <<"home", "atomik", "src", "aptl">>

knownLocations == <<Aptl, Aptl \o <<"infrastructure">>>>

\* resolve(dir, name)
Resolve(dir, name) == Append(dir, name)

\* dirname(dir): the root is its own parent
Dirname(dir) == IF dir = <<>> THEN dir ELSE SubSeq(dir, 1, Len(dir) - 1)

IsPrefix(pre, path) == Len(pre) <= Len(path) /\ SubSeq(path, 1, Len(pre)) = pre

\* existsSync(path): a file or directory of the filesystem, or a directory
\* on the way to one
existsSync(path) == \E entry \in fsFiles \cup fsDirs : IsPrefix(path, entry)

\* existsSync(mainTf) || existsSync(outputsTf) for the two files of dir
HasMarker(dir) ==
    existsSync(Resolve(dir, "main.tf")) \/ existsSync(Resolve(dir, "outputs.tf"))

\* the for loop over knownLocations from index i: the location returned,
\* as a one-element sequence, or the empty sequence
RECURSIVE KnownFrom(_)
KnownFrom(i) ==
    IF i > Len(knownLocations) THEN <<>>
    ELSE IF existsSync(knownLocations[i]) /\ HasMarker(knownLocations[i])
    THEN <<knownLocations[i]>>
    ELSE KnownFrom(i + 1)

\* the two checks of one iteration of the while loop: the path returned at
\* this level, as a one-element sequence, or the empty sequence
LevelHitInfraFirst(dir) ==
    IF HasMarker(Resolve(dir, "infrastructure")) THEN <<Resolve(dir, "infrastructure")>>
    ELSE IF HasMarker(dir) THEN <<dir>>
    ELSE <<>>

LevelHit(dir) ==
    IF HasMarker(dir) THEN <<dir>>
    ELSE IF HasMarker(Resolve(dir, "infrastructure")) THEN <<Resolve(dir, "infrastructure")>>
    ELSE <<>>

\* depth++
NextDepthStuck(d) == d

NextDepth(d) == d + 1

NotFound(start) ==
    [message |-> "Could not find Terraform root directory", startingDirectory |-> start]

NoPath == <<"?">>

NoError == [message |-> "", startingDirectory |-> <<>>]

----------------------------------------------------------------------------
(* Filesystems and working directories *)

Chain(n) == [i \in 1..n |-> "d"]

Infra(dir) == Append(dir, "infrastructure")

Tools == Append(Aptl, "tools")

CwdChoices == {Chain(DeepLen), Chain(2), <<>>, Tools}

MainDirs ==
    { Chain(DeepLen), Chain(DeepLen - (maxDepth - 1)), Chain(DeepLen - maxDepth),
      Chain(2), Chain(1), <<>>,
      Infra(Chain(DeepLen)), Infra(Chain(DeepLen - (maxDepth - 1))),
      Infra(Chain(DeepLen - maxDepth)), Infra(Chain(1)), Infra(<<>>),
      Aptl, Infra(Aptl), Tools, Dirname(Aptl) }

OutputsDirs == {Chain(DeepLen), Infra(<<>>), Aptl}

MarkerFiles ==
    {Resolve(dir, "main.tf") : dir \in MainDirs}
    \cup {Resolve(dir, "outputs.tf") : dir \in OutputsDirs}

\* the subsets of S with at most n elements
RECURSIVE BoundedSubsets(_, _)
BoundedSubsets(S, n) ==
    IF n = 0 THEN {{}}
    ELSE LET smaller == BoundedSubsets(S, n - 1)
         IN  smaller \cup {T \cup {x} : T \in smaller, x \in S}

Filesystems == BoundedSubsets(MarkerFiles, MaxMarkers)

\* directories that exist without any marker file in them
EmptyDirChoices == {{}, {Aptl}}

----------------------------------------------------------------------------
(* Initial states *)

NetIdle ==
    /\ netPc = "idle"
    /\ netTarget = <<>>
    /\ netCidrs = <<>>
    /\ netResult = FALSE

CfgIdle ==
    /\ cfgPc = "start"
    /\ configJson = <<>>
    /\ config = <<>>

CredIdle ==
    /\ credPc = "idle"
    /\ credTarget = ""
    /\ credArgs = <<>>
    /\ credResult = NoCredentials
    /\ credError = ""

FindIdle ==
    /\ fsFiles = {}
    /\ fsDirs = {}
    /\ cwd = <<>>
    /\ findPc = "idle"
    /\ currentDir = <<>>
    /\ depth = 0
    /\ findResult = NoPath
    /\ findError = NoError

\* nothing has been called yet
Init == NetIdle /\ CfgIdle /\ CredIdle /\ FindIdle

\* findTerraformRoot is about to run in some working directory of some filesystem
InitFind ==
    /\ NetIdle /\ CfgIdle /\ CredIdle
    /\ fsFiles \in Filesystems
    /\ fsDirs \in EmptyDirChoices
    /\ cwd \in CwdChoices
    /\ findPc = "start"
    /\ currentDir = <<>>
    /\ depth = 0
    /\ findResult = NoPath
    /\ findError = NoError

----------------------------------------------------------------------------
(* Actions *)

\* one call isTargetAllowed(target, allowedCidrs)
IsTargetAllowedCall ==
    /\ netPc = "idle"
    /\ \E target \in TargetInputs, allowedCidrs \in CidrLists :
        /\ netTarget' = target
        /\ netCidrs' = allowedCidrs
        /\ netResult' = isTargetAllowed(target, allowedCidrs)
    /\ netPc' = "returned"
    /\ UNCHANGED <<cfgVars, credVars, findVars>>

\* the validation step of loadLabConfig, LabConfigSchema.parse(configJson):
\* a LabConfig, or a ZodError and none
ParseLabConfig ==
    /\ cfgPc = "start"
    /\ \E payload \in Payloads :
        /\ configJson' = payload
        /\ IF LabConfigAccepts(payload)
           THEN cfgPc' = "parsed" /\ config' = <<LabConfigOutput(payload)>>
           ELSE cfgPc' = "rejected" /\ config' = <<>>
    /\ UNCHANGED <<netVars, credVars, findVars>>

\* one call selectCredentials(target, config[, defaultUsername]) on the
\* validated configuration
SelectCredentialsCall ==
    /\ cfgPc = "parsed"
    /\ credPc = "idle"
    /\ \E target \in CredTargets, args \in CredArgs :
        LET outcome == selectCredentials(target, config[1], args)
        IN  /\ credTarget' = target
            /\ credArgs' = args
            /\ credPc' = IF outcome.threw THEN "thrown" ELSE "returned"
            /\ credResult' = outcome.value
            /\ credError' = outcome.message
    /\ UNCHANGED <<netVars, cfgVars, findVars>>

\* findTerraformRoot up to the while loop: currentDir = process.cwd(), then
\* the loop over the known locations
FindKnownLocations ==
    /\ findPc = "start"
    /\ currentDir' = cwd
    /\ LET known == KnownFrom(1)
       IN  IF known # <<>>
           THEN findPc' = "returned" /\ findResult' = known[1]
           ELSE findPc' = "walk" /\ findResult' = findResult
    /\ UNCHANGED <<netVars, cfgVars, credVars, fsFiles, fsDirs, cwd, depth, findError>>

\* one iteration of while (depth < maxDepth)
WalkStep ==
    /\ findPc = "walk"
    /\ depth < maxDepth
    /\ LET found     == LevelHit(currentDir)
           parentDir == Dirname(currentDir)
       IN  IF found # <<>>
           THEN /\ findPc' = "returned"
                /\ findResult' = found[1]
                /\ UNCHANGED <<currentDir, depth, findError>>
           ELSE IF parentDir = currentDir
           THEN /\ findPc' = "thrown"
                /\ findError' = NotFound(cwd)
                /\ UNCHANGED <<currentDir, depth, findResult>>
           ELSE /\ currentDir' = parentDir
                /\ depth' = NextDepth(depth)
                /\ UNCHANGED <<findPc, findResult, findError>>
    /\ UNCHANGED <<netVars, cfgVars, credVars, fsFiles, fsDirs, cwd>>

\* the loop condition fails: the throw after the loop
WalkExhausted ==
    /\ findPc = "walk"
    /\ ~(depth < maxDepth)
    /\ findPc' = "thrown"
    /\ findError' = NotFound(cwd)
    /\ UNCHANGED <<netVars, cfgVars, credVars, fsFiles, fsDirs, cwd,
                   currentDir, depth, findResult>>

NextNet == IsTargetAllowedCall

NextCred == ParseLabConfig \/ SelectCredentialsCall

NextFind == FindKnownLocations \/ WalkStep \/ WalkExhausted

SpecNet == Init /\ [][NextNet]_vars

SpecCred == Init /\ [][NextCred]_vars

\* findTerraformRoot is synchronous code: once called it runs to its end
SpecFind == InitFind /\ [][NextFind]_vars /\ WF_vars(NextFind)

----------------------------------------------------------------------------
(* Network policy claims *)

ProperPrefixes == SamplePrefixes \ {0}

\* bit i (1 is the most significant, 32 the least) of four octets packed
\* big-endian
Bit(o, i) == (o[((i - 1) \div 8) + 1] \div (2 ^ (7 - ((i - 1) % 8)))) % 2

LeadingBitsEqual(o, n, p) == \A i \in 1..p : Bit(o, i) = Bit(n, i)

AllRangesIn(S) == \A i \in 1..Len(netCidrs) : netCidrs[i] \in S

\* C1: for every valid IPv4 target, isTargetAllowed(target, ["0.0.0.0/0"])
\* returns true.
C1_SlashZeroMatchesEveryAddress ==
    (/\ netPc = "returned"
     /\ netTarget \in ValidTargets
     /\ netCidrs = <<FormatCidr(<<0, 0, 0, 0>>, 0)>>)
    => netResult = TRUE

\* C2: for a valid target and a list of valid ranges with prefix 1..32,
\* isTargetAllowed returns true exactly when some range of the list has its
\* leading prefix bits equal to those of the target (big-endian packing);
\* false for the empty list.
C2_AllowedIffSomeRangeSharesPrefix ==
    netPc = "returned" =>
        \A o \in SampleIps :
            (/\ netTarget = FormatIp(o)
             /\ AllRangesIn({FormatCidr(n, p) : n \in SampleNets, p \in ProperPrefixes}))
            => (netResult <=>
                    \E i \in 1..Len(netCidrs), n \in SampleNets, p \in ProperPrefixes :
                        netCidrs[i] = FormatCidr(n, p) /\ LeadingBitsEqual(o, n, p))

\* a target whose first octet is >= 128 is refused by the first range and
\* allowed by the second
C2_Witness ==
    /\ netPc = "returned"
    /\ netTarget = FormatIp(<<192, 168, 1, 1>>)
    /\ netCidrs = <<FormatCidr(<<10, 0, 1, 0>>, 24), FormatCidr(<<192, 168, 0, 0>>, 16)>>
    /\ netResult = TRUE

\* C3: a comparison whose target or range is unparsable contributes false:
\* with an unparsable target, or with nothing but unparsable ranges,
\* isTargetAllowed returns false.
C3_UnparsableNeverMatches ==
    (/\ netPc = "returned"
     /\ netTarget \in MalformedTargets \/ AllRangesIn(MalformedCidrs))
    => netResult = FALSE

----------------------------------------------------------------------------
(* Configuration and credential claims *)

\* the two variants of the data model: a DisabledInstance carries only
\* enabled = false, an Instance carries the address and key fields and the
\* enabled flag
IsDisabledInstance(inst) == DOMAIN inst = {"enabled"} /\ inst["enabled"] = FALSE

IsInstance(inst) ==
    /\ DOMAIN inst = InstanceRequired \cup {"enabled"}
    /\ inst["enabled"] \in BOOLEAN
    /\ inst["public_ip"] \in IpStrings
    /\ inst["private_ip"] \in IpStrings

Slot(name) == config[1]["instances"][name]

RawSlot(name) == configJson["instances"][name]

Rank(name) == CASE name = "siem" -> 1 [] name = "victim" -> 2 [] OTHER -> 3

\* the Instance-variant slots one of whose addresses is the target
MatchingSlots ==
    {name \in SlotNames :
        /\ ~IsDisabledInstance(Slot(name))
        /\ credTarget \in {Slot(name)["public_ip"], Slot(name)["private_ip"]}}

CredDone == credPc \in {"returned", "thrown"}

\* C4: when the target is an address of several Instance slots, the result
\* is the key and user of the matching slot of highest priority (siem, then
\* victim, then kali).
C4_FirstMatchWins ==
    (CredDone /\ MatchingSlots # {}) =>
        \E best \in MatchingSlots :
            /\ \A other \in MatchingSlots : Rank(best) <= Rank(other)
            /\ credPc = "returned"
            /\ credResult = [sshKey |-> Slot(best)["ssh_key"],
                             username |-> Slot(best)["ssh_user"]]

\* victim and kali both list the target, siem does not
C4_Witness ==
    /\ credPc = "returned"
    /\ MatchingSlots = {"victim", "kali"}
    /\ credResult = [sshKey |-> "victim.pem", username |-> "victim-user"]

\* C5: when the target matches no slot and kali is an Instance, the result
\* is kali's key with the caller's defaultUsername ("kali" when omitted),
\* not kali's own ssh_user.
C5_FallbackUsesDefaultUsername ==
    (CredDone /\ MatchingSlots = {} /\ ~IsDisabledInstance(Slot("kali"))) =>
        /\ credPc = "returned"
        /\ credResult.sshKey = Slot("kali")["ssh_key"]
        /\ credResult.username = (IF credArgs = <<>> THEN "kali" ELSE credArgs[1])

\* kali is configured with user kali-admin and the caller passes "operator"
C5_Witness ==
    /\ credPc = "returned"
    /\ credTarget = "9.9.9.9"
    /\ credArgs = <<"operator">>
    /\ Slot("kali")["ssh_user"] = "kali-admin"
    /\ credResult = [sshKey |-> "kali.pem", username |-> "operator"]

\* C6: selectCredentials fails exactly when no slot matches the target and
\* kali is a DisabledInstance; a match on siem or victim succeeds even with
\* kali disabled.
C6_FailsIffFallbackNeedsDisabledKali ==
    CredDone =>
        /\ credPc = "thrown" <=> (MatchingSlots = {} /\ IsDisabledInstance(Slot("kali")))
        /\ credPc = "thrown" => credError = KaliUnavailable /\ credResult = NoCredentials

\* kali is disabled and the target is nobody's address
C6_Witness ==
    /\ credPc = "thrown"
    /\ credTarget = "9.9.9.9"
    /\ IsDisabledInstance(Slot("kali"))
    /\ ~IsDisabledInstance(Slot("siem"))

\* C7: a slot whose enabled flag is false never takes part in address
\* matching, whatever other fields its raw JSON had: selectCredentials never
\* returns the key and user of such a slot.
C7_DisabledSlotNeverMatches ==
    credPc = "returned" =>
        \A name \in SlotNames :
            (Slot(name)["enabled"] = FALSE /\ "ssh_key" \in DOMAIN Slot(name))
            => credResult # [sshKey |-> Slot(name)["ssh_key"],
                             username |-> Slot(name)["ssh_user"]]

\* a raw slot that is a well-formed instance, apart from its enabled key
WellFormedInstance(raw) ==
    /\ InstanceRequired \subseteq DOMAIN raw
    /\ raw["public_ip"] \in IpStrings
    /\ raw["private_ip"] \in IpStrings

\* C8: an accepted configuration has each slot in exactly one of the two
\* variants; a well-formed instance without an enabled key becomes an
\* Instance with enabled = true; a slot given only {enabled: false} becomes
\* a DisabledInstance without address or key fields; a payload with a slot
\* absent, or with a slot that is neither, is rejected and yields no
\* LabConfig.
C8_SlotsResolveToOneVariant ==
    /\ cfgPc = "parsed" =>
        /\ Len(config) = 1
        /\ \A name \in SlotNames :
            /\ IsInstance(Slot(name)) # IsDisabledInstance(Slot(name))
            /\ (WellFormedInstance(RawSlot(name)) /\ "enabled" \notin DOMAIN RawSlot(name))
               => (IsInstance(Slot(name)) /\ Slot(name)["enabled"] = TRUE)
            /\ RawSlot(name) = OnlyDisabled => Slot(name) = OnlyDisabled
    /\ (/\ cfgPc # "start"
        /\ "instances" \in DOMAIN configJson
        /\ \E name \in SlotNames :
            \/ name \notin DOMAIN configJson["instances"]
            \/ /\ ~WellFormedInstance(RawSlot(name))
               /\ ~("enabled" \in DOMAIN RawSlot(name) /\ RawSlot(name)["enabled"] = FALSE))
       => (cfgPc = "rejected" /\ config = <<>>)

\* siem has no enabled key, victim is given only {enabled: false}
C8_Witness ==
    /\ cfgPc = "parsed"
    /\ "enabled" \notin DOMAIN RawSlot("siem")
    /\ Slot("siem")["enabled"] = TRUE
    /\ RawSlot("victim") = OnlyDisabled
    /\ IsDisabledInstance(Slot("victim"))

----------------------------------------------------------------------------
(* Path resolver claims *)

Ancestor(dir, levels) == SubSeq(dir, 1, Len(dir) - levels)

\* the levels the walk may visit: at most maxDepth, and not above the root
WalkLevels == 0..(IF Len(cwd) < maxDepth - 1 THEN Len(cwd) ELSE maxDepth - 1)

\* the directories the walk tries, in order: per level the directory, then
\* its infrastructure subdirectory
WalkCandidates ==
    [i \in 1..(2 * Cardinality(WalkLevels)) |->
        IF i % 2 = 1 THEN Ancestor(cwd, (i - 1) \div 2)
        ELSE Append(Ancestor(cwd, (i - 1) \div 2), "infrastructure")]

Qualifies(dir) ==
    \/ Append(dir, "main.tf") \in fsFiles
    \/ Append(dir, "outputs.tf") \in fsFiles

\* the first qualifying directory of a list is result
IsFirstQualifying(candidates, result) ==
    \E i \in 1..Len(candidates) :
        /\ candidates[i] = result
        /\ Qualifies(candidates[i])
        /\ \A j \in 1..(i - 1) : ~Qualifies(candidates[j])

NoKnownLocationOnDisk ==
    \A i \in 1..Len(knownLocations) :
        \A entry \in fsFiles \cup fsDirs : ~IsPrefix(knownLocations[i], entry)

\* C9: findTerraformRoot returns the first qualifying directory in the
\* order known locations, then per level of the upward walk the directory
\* before its infrastructure subdirectory; with no known location on disk
\* the result is that of the walk alone.
C9_FirstQualifyingInOrder ==
    findPc = "returned" =>
        /\ IsFirstQualifying(knownLocations \o WalkCandidates, findResult)
        /\ NoKnownLocationOnDisk => IsFirstQualifying(WalkCandidates, findResult)

\* found in the infrastructure subdirectory of an ancestor, although a
\* directory further up has a marker file too
C9_Witness ==
    /\ findPc = "returned"
    /\ cwd = Chain(DeepLen)
    /\ findResult = Append(Chain(DeepLen - (maxDepth - 1)), "infrastructure")
    /\ Cardinality(fsFiles) >= 2

FindDone == findPc \in {"returned", "thrown"}

WalkBounded ==
    /\ depth <= maxDepth
    /\ findPc = "walk" => (depth <= Len(cwd) /\ currentDir = Ancestor(cwd, depth))
    /\ findPc = "returned" => Qualifies(findResult)
    /\ findPc = "thrown" =>
        /\ findError = NotFound(cwd)
        /\ findResult = NoPath
        /\ \A i \in 1..Len(knownLocations) : ~Qualifies(knownLocations[i])
        /\ \A i \in 1..Len(WalkCandidates) : ~Qualifies(WalkCandidates[i])

\* C10: the walk always terminates: it visits at most maxDepth levels and
\* stops at the root; a qualifying directory within the bound is returned,
\* and otherwise the call fails with a NotFound error that names the
\* starting directory.
C10_WalkTerminates == []WalkBounded /\ <>FindDone

\* the walk gave up after maxDepth levels without reaching the root
C10_Witness ==
    /\ findPc = "thrown"
    /\ depth = maxDepth
    /\ currentDir # <<>>
    /\ fsFiles # {}

====
